---- MODULE Spec2Model ----
(***************************************************************************)
(* Halo load/store layer of src/astaroth/loadStore.cc: the halo widths     *)
(* computed by initLoadStore, the four host staging buffers and their      *)
(* lifetime, the coordinate boxes of the twelve face transfers and the     *)
(* streams the two batch drivers issue them on.                            *)
(***************************************************************************)
EXTENDS Integers, Sequences, FiniteSets, TLC

(* ------------------------------ bounds --------------------------------- *)
MaxGhost == 1          \* nghost ranges over 1..MaxGhost
MaxExtent == 3         \* nx, ny, nz range over 1..MaxExtent
MaxInitCalls == 2      \* calls of initLoadStore in one run
MaxFinalCalls == 2     \* calls of finalLoadStore in one run
MaxFlagChanges == 1    \* assignments to a topology flag in one run
MaxCalls == 2          \* calls of the batch drivers in one run

(* ------------------------- program constants --------------------------- *)
BOT == 0
TOP == 1
TOT == 2
NULL == 0
NUM_VTXBUF_HANDLES == 2

STREAM_DEFAULT == "STREAM_DEFAULT"
STREAM_1 == "STREAM_1"
STREAM_2 == "STREAM_2"
STREAM_3 == "STREAM_3"
STREAM_4 == "STREAM_4"
STREAM_5 == "STREAM_5"
STREAM_6 == "STREAM_6"
Streams == {STREAM_DEFAULT, STREAM_1, STREAM_2, STREAM_3, STREAM_4, STREAM_5, STREAM_6}

FlagNames == {"lperi0", "lperi1", "lperi2",
              "lfirst_proc_x", "lfirst_proc_y", "lfirst_proc_z",
              "llast_proc_x", "llast_proc_y", "llast_proc_z", "lyinyang"}

VARIABLES
  cparam,          \* compile-time grid parameters: nghost, nx, ny, nz
  cdata,           \* the topology flags read by initLoadStore
  halo_widths_x, halo_widths_y, halo_widths_z,
  halo_xz_size, halo_yz_size,
  halo_xz_buffer, halo_yz_buffer,
  heap,            \* every allocation made so far: its size and the free() calls on it
  streams,         \* per stream, the operations issued and not yet completed
  status,          \* "running", or "aborted" once the allocator stopped the process
  lastOp,          \* the operation that produced this state
  initCalls, finalCalls, flagChanges, calls

geom == <<halo_widths_x, halo_widths_y, halo_widths_z, halo_xz_size, halo_yz_size>>
bufs == <<halo_xz_buffer, halo_yz_buffer, heap>>
hist == <<initCalls, finalCalls, flagChanges, calls>>
vars == <<cparam, cdata, geom, bufs, streams, status, lastOp, hist>>

(* --------------------------- grid parameters --------------------------- *)
nghost == cparam.nghost
nx == cparam.nx
ny == cparam.ny
nz == cparam.nz
mx == nx + 2 * nghost
my == ny + 2 * nghost
mz == nz + 2 * nghost
l1 == nghost + 1
l2 == mx - nghost
m1 == nghost + 1
m2 == my - nghost
n1 == nghost + 1
n2 == mz - nghost
mxy == mx * my

Params == {[nghost |-> g, nx |-> a, ny |-> b, nz |-> c] :
             g \in 1..MaxGhost, a \in 1..MaxExtent, b \in 1..MaxExtent, c \in 1..MaxExtent}
CubicParams == {p \in Params : p.nx = p.ny /\ p.ny = p.nz}

(* ---------------------------- topology flags --------------------------- *)
lperi == [i \in 0..2 |-> cdata[CASE i = 0 -> "lperi0" [] i = 1 -> "lperi1" [] OTHER -> "lperi2"]]
lfirst_proc_x == cdata["lfirst_proc_x"]
lfirst_proc_y == cdata["lfirst_proc_y"]
lfirst_proc_z == cdata["lfirst_proc_z"]
llast_proc_x == cdata["llast_proc_x"]
llast_proc_y == cdata["llast_proc_y"]
llast_proc_z == cdata["llast_proc_z"]
lyinyang == cdata["lyinyang"]

(* ------------------------------ halo widths ---------------------------- *)
\* int halo_widths_*[3]={nghost,nghost,2*nghost}
InitialWidths == [i \in 0..2 |-> IF i = TOT THEN 2 * nghost ELSE nghost]

\* mutant: the first/last flags widen the opposite sides
WidenSwapped(w, lper, lfirst, llast) ==
  IF ~lper
    THEN [w EXCEPT ![BOT] = IF llast THEN nghost + 1 ELSE @,
                   ![TOP] = IF lfirst THEN nghost + 1 ELSE @]
    ELSE w

\* if (!lperi[a]) { if (lfirst) w[BOT]=nghost+1; if (llast) w[TOP]=nghost+1; }
Widen(w, lper, lfirst, llast) ==
  IF ~lper
    THEN [w EXCEPT ![BOT] = IF lfirst THEN nghost + 1 ELSE @,
                   ![TOP] = IF llast THEN nghost + 1 ELSE @]
    ELSE w

\* w[TOT]=w[BOT]+w[TOP]
SetTot(w) == [w EXCEPT ![TOT] = w[BOT] + w[TOP]]

NewWidthsX == SetTot(Widen(halo_widths_x, lperi[0], lfirst_proc_x, llast_proc_x))
NewWidthsY ==
  SetTot(IF ~lyinyang THEN Widen(halo_widths_y, lperi[1], lfirst_proc_y, llast_proc_y)
                      ELSE halo_widths_y)
NewWidthsZ ==
  SetTot(IF ~lyinyang THEN Widen(halo_widths_z, lperi[2], lfirst_proc_z, llast_proc_z)
                      ELSE halo_widths_z)

(* ---------------------------- staging buffers -------------------------- *)
\* mutant: the buffer is allocated on every call
NeedsAllocAlways(p) == TRUE

\* if (halo_*_buffer[i]==NULL)
NeedsAlloc(p) == p = NULL

\* malloc(size*sizeof(AcReal)): a new allocation, named by its index in the heap
Malloc(h, size) == Append(h, [size |-> size, frees |-> 0])

\* one iteration of the loop of initLoadStore over i
AllocStep(st, i, xzs, yzs) ==
  LET h1 == IF NeedsAlloc(st.xz[i]) THEN Malloc(st.heap, xzs[i]) ELSE st.heap
      xz1 == IF NeedsAlloc(st.xz[i]) THEN [st.xz EXCEPT ![i] = Len(h1)] ELSE st.xz
      h2 == IF NeedsAlloc(st.yz[i]) THEN Malloc(h1, yzs[i]) ELSE h1
      yz1 == IF NeedsAlloc(st.yz[i]) THEN [st.yz EXCEPT ![i] = Len(h2)] ELSE st.yz
  IN [xz |-> xz1, yz |-> yz1, heap |-> h2]

initLoadStore ==
  /\ status = "running"
  /\ initCalls < MaxInitCalls
  /\ LET wx == NewWidthsX
         wy == NewWidthsY
         wz == NewWidthsZ
         xzs == [i \in 0..1 |-> mx * nz * wy[i] * NUM_VTXBUF_HANDLES]
         yzs == [i \in 0..1 |-> ny * nz * wx[i] * NUM_VTXBUF_HANDLES]
         st0 == [xz |-> halo_xz_buffer, yz |-> halo_yz_buffer, heap |-> heap]
         st2 == AllocStep(AllocStep(st0, BOT, xzs, yzs), TOP, xzs, yzs)
     IN /\ halo_widths_x' = wx
        /\ halo_widths_y' = wy
        /\ halo_widths_z' = wz
        /\ halo_xz_size' = xzs
        /\ halo_yz_size' = yzs
        /\ halo_xz_buffer' = st2.xz
        /\ halo_yz_buffer' = st2.yz
        /\ heap' = st2.heap
  /\ initCalls' = initCalls + 1
  /\ lastOp' = "initLoadStore"
  /\ UNCHANGED <<cparam, cdata, streams, status, finalCalls, flagChanges, calls>>

\* free(p): nothing for NULL; a second free of one allocation is undefined
\* behaviour, after which the allocator either stops the process or goes on
RECURSIVE FreeAll(_, _, _)
FreeAll(h, ptrs, onDouble) ==
  IF ptrs = <<>> THEN [heap |-> h, aborted |-> FALSE]
  ELSE LET p == Head(ptrs)
       IN IF p = NULL THEN FreeAll(h, Tail(ptrs), onDouble)
          ELSE LET h1 == [h EXCEPT ![p].frees = @ + 1]
               IN IF h[p].frees >= 1 /\ onDouble = "abort"
                    THEN [heap |-> h1, aborted |-> TRUE]
                    ELSE FreeAll(h1, Tail(ptrs), onDouble)

finalLoadStore ==
  /\ status = "running"
  /\ finalCalls < MaxFinalCalls
  /\ \E onDouble \in {"abort", "continue"} :
       LET r == FreeAll(heap, <<halo_xz_buffer[BOT], halo_yz_buffer[BOT],
                                halo_xz_buffer[TOP], halo_yz_buffer[TOP]>>, onDouble)
       IN /\ heap' = r.heap
          /\ status' = IF r.aborted THEN "aborted" ELSE "running"
  /\ finalCalls' = finalCalls + 1
  /\ lastOp' = "finalLoadStore"
  /\ UNCHANGED <<cparam, cdata, geom, halo_xz_buffer, halo_yz_buffer, streams,
                 initCalls, flagChanges, calls>>

\* the host code assigns one of the topology flags
SetFlag ==
  /\ status = "running"
  /\ flagChanges < MaxFlagChanges
  /\ \E f \in FlagNames : cdata' = [cdata EXCEPT ![f] = ~@]
  /\ flagChanges' = flagChanges + 1
  /\ lastOp' = "SetFlag"
  /\ UNCHANGED <<cparam, geom, bufs, streams, status, initCalls, finalCalls, calls>>

(* ------------------------------ face transfers ------------------------ *)
Int3(a, b, c) == [x |-> a, y |-> b, z |-> c]
\* int3 + scalar, componentwise (math_utils.h)
Plus(v, k) == Int3(v.x + k, v.y + k, v.z + k)

\* one issued transfer: the primitive, its arguments and the stream it is queued on
Op(name, prim, stream, start, end, num_vertices, buffer, arg) ==
  [name |-> name, prim |-> prim, stream |-> stream, start |-> start, end |-> end,
   num_vertices |-> num_vertices, buffer |-> buffer, arg |-> arg]

loadOuterFront(stream) ==
  LET src == Int3(0, 0, 0)
      num_vertices == mxy * halo_widths_z[BOT]
  IN Op("loadOuterFront", "acNodeLoadMeshWithOffset", stream, src, src, num_vertices, NULL, "")

loadOuterBack(stream) ==
  LET src == Int3(0, 0, mz - halo_widths_z[TOP])
      num_vertices == mxy * halo_widths_z[TOP]
  IN Op("loadOuterBack", "acNodeLoadMeshWithOffset", stream, src, src, num_vertices, NULL, "")

loadOuterBot(stream) ==
  LET start == Int3(0, 0, halo_widths_z[BOT])
      end == Int3(mx, halo_widths_y[BOT], mz - halo_widths_z[TOP])
  IN Op("loadOuterBot", "acNodeLoadPlateXcomp", stream, start, end, 0, halo_xz_buffer[BOT], "AC_XZ")

loadOuterTop(stream) ==
  LET start == Int3(0, my - halo_widths_y[TOP], halo_widths_z[BOT])
      end == Int3(mx, my, mz - halo_widths_z[TOP])
  IN Op("loadOuterTop", "acNodeLoadPlateXcomp", stream, start, end, 0, halo_xz_buffer[TOP], "AC_XZ")

\* mutant: the exclusive end is taken for the last index (the +1 is lost)
loadOuterLeftInclusiveEnd(stream) ==
  LET start == Int3(0, halo_widths_y[BOT], halo_widths_z[BOT])
      end == Int3(halo_widths_x[BOT] - 1, my - halo_widths_y[TOP] - 1, mz - halo_widths_z[TOP] - 1)
  IN Op("loadOuterLeft", "acNodeLoadPlate", stream, start, end, 0, halo_yz_buffer[BOT], "AC_YZ")

loadOuterLeft(stream) ==
  LET start == Int3(0, halo_widths_y[BOT], halo_widths_z[BOT])
      end == Plus(Int3(halo_widths_x[BOT] - 1, my - halo_widths_y[TOP] - 1,
                       mz - halo_widths_z[TOP] - 1), 1)
  IN Op("loadOuterLeft", "acNodeLoadPlate", stream, start, end, 0, halo_yz_buffer[BOT], "AC_YZ")

loadOuterRight(stream) ==
  LET start == Int3(mx - halo_widths_x[TOP], halo_widths_y[BOT], halo_widths_z[BOT])
      end == Plus(Int3(mx - 1, my - halo_widths_y[TOP] - 1, mz - halo_widths_z[TOP] - 1), 1)
  IN Op("loadOuterRight", "acNodeLoadPlate", stream, start, end, 0, halo_yz_buffer[TOP], "AC_YZ")

storeInnerFront(stream) ==
  LET start == Plus(Int3(l1, m1, n1), -1)
      end == Plus(Plus(Int3(l2, m2, n1 + halo_widths_z[BOT] - 1), -1), 1)
  IN Op("storeInnerFront", "acNodeStoreIXYPlate", stream, start, end, 0, NULL, "BOT")

storeInnerBack(stream) ==
  LET start == Plus(Int3(l1, m1, n2 - halo_widths_z[TOP] + 1), -1)
      end == Plus(Plus(Int3(l2, m2, n2), -1), 1)
  IN Op("storeInnerBack", "acNodeStoreIXYPlate", stream, start, end, 0, NULL, "TOP")

storeInnerBot(stream) ==
  LET start == Plus(Int3(l1, m1, n1 + halo_widths_z[BOT]), -1)
      end == Plus(Plus(Int3(l2, m1 + halo_widths_y[BOT] - 1, n2 - halo_widths_z[TOP]), -1), 1)
  IN Op("storeInnerBot", "acNodeStorePlate", stream, start, end, 0, halo_xz_buffer[BOT], "AC_XZ")

storeInnerTop(stream) ==
  LET start == Plus(Int3(l1, m2 - halo_widths_y[TOP] + 1, n1 + halo_widths_z[BOT]), -1)
      end == Plus(Plus(Int3(l2, m2, n2 - halo_widths_z[TOP]), -1), 1)
  IN Op("storeInnerTop", "acNodeStorePlate", stream, start, end, 0, halo_xz_buffer[TOP], "AC_XZ")

storeInnerLeft(stream) ==
  LET start == Plus(Int3(l1, m1 + halo_widths_y[BOT], n1 + halo_widths_z[BOT]), -1)
      end == Plus(Plus(Int3(l1 + halo_widths_x[BOT] - 1, m2 - halo_widths_y[TOP],
                            n2 - halo_widths_z[TOP]), -1), 1)
  IN Op("storeInnerLeft", "acNodeStorePlate", stream, start, end, 0, halo_yz_buffer[BOT], "AC_YZ")

storeInnerRight(stream) ==
  LET start == Plus(Int3(l2 - halo_widths_x[TOP] + 1, m1 + halo_widths_y[BOT],
                         n1 + halo_widths_z[BOT]), -1)
      end == Plus(Plus(Int3(l2, m2 - halo_widths_y[TOP], n2 - halo_widths_z[TOP]), -1), 1)
  IN Op("storeInnerRight", "acNodeStorePlate", stream, start, end, 0, halo_yz_buffer[TOP], "AC_YZ")

(* ------------------------------ batch drivers -------------------------- *)
\* mutant: the top plate is loaded on a stream of its own
loadOuterHalosOwnStream ==
  << loadOuterFront(STREAM_DEFAULT), loadOuterBack(STREAM_DEFAULT),
     loadOuterTop(STREAM_3), loadOuterBot(STREAM_DEFAULT),
     loadOuterLeft(STREAM_DEFAULT), loadOuterRight(STREAM_DEFAULT) >>

\* the transfers loadOuterHalos issues, in its order
loadOuterHalosOps ==
  << loadOuterFront(STREAM_DEFAULT), loadOuterBack(STREAM_DEFAULT),
     loadOuterTop(STREAM_DEFAULT), loadOuterBot(STREAM_DEFAULT),
     loadOuterLeft(STREAM_DEFAULT), loadOuterRight(STREAM_DEFAULT) >>

\* the transfers storeInnerHalos issues, in its order
storeInnerHalosOps ==
  << storeInnerLeft(STREAM_4), storeInnerRight(STREAM_5),
     storeInnerBot(STREAM_2), storeInnerTop(STREAM_3),
     storeInnerFront(STREAM_6), storeInnerBack(STREAM_1) >>

\* queue the transfers ops[k..] of driver call c on their streams
RECURSIVE IssueFrom(_, _, _, _)
IssueFrom(q, ops, k, c) ==
  IF k > Len(ops) THEN q
  ELSE LET op == [call |-> c, seq |-> k] @@ ops[k]
       IN IssueFrom([q EXCEPT ![op.stream] = Append(@, op)], ops, k + 1, c)

loadOuterHalos ==
  /\ status = "running"
  /\ calls < MaxCalls
  /\ streams' = IssueFrom(streams, loadOuterHalosOps, 1, calls + 1)
  /\ calls' = calls + 1
  /\ lastOp' = "loadOuterHalos"
  /\ UNCHANGED <<cparam, cdata, geom, bufs, status, initCalls, finalCalls, flagChanges>>

storeInnerHalos ==
  /\ status = "running"
  /\ calls < MaxCalls
  /\ streams' = IssueFrom(streams, storeInnerHalosOps, 1, calls + 1)
  /\ calls' = calls + 1
  /\ lastOp' = "storeInnerHalos"
  /\ UNCHANGED <<cparam, cdata, geom, bufs, status, initCalls, finalCalls, flagChanges>>

\* the device finishes the oldest transfer of one stream
Complete ==
  /\ \E s \in Streams :
       /\ streams[s] # <<>>
       /\ streams' = [streams EXCEPT ![s] = Tail(@)]
  /\ lastOp' = "Complete"
  /\ UNCHANGED <<cparam, cdata, geom, bufs, status, hist>>

\* the device finishes everything queued on every stream
Synchronize ==
  /\ \E s \in Streams : streams[s] # <<>>
  /\ streams' = [s \in Streams |-> <<>>]
  /\ lastOp' = "Synchronize"
  /\ UNCHANGED <<cparam, cdata, geom, bufs, status, hist>>

(* ------------------------------ initial state -------------------------- *)
InitWith(P, F) ==
  /\ cparam \in P
  /\ cdata \in F
  /\ halo_widths_x = InitialWidths
  /\ halo_widths_y = InitialWidths
  /\ halo_widths_z = InitialWidths
  /\ halo_xz_size = [i \in 0..1 |-> 0]
  /\ halo_yz_size = [i \in 0..1 |-> 0]
  /\ halo_xz_buffer = [i \in 0..1 |-> NULL]
  /\ halo_yz_buffer = [i \in 0..1 |-> NULL]
  /\ heap = <<>>
  /\ streams = [s \in Streams |-> <<>>]
  /\ status = "running"
  /\ lastOp = "start"
  /\ initCalls = 0
  /\ finalCalls = 0
  /\ flagChanges = 0
  /\ calls = 0

AnyFlags == [FlagNames -> BOOLEAN]
\* a run without periodic axes and without Yin-Yang, at any place of the decomposition
NonPeriodicFlags == {f \in AnyFlags : ~f["lperi0"] /\ ~f["lperi1"] /\ ~f["lperi2"] /\ ~f["lyinyang"]}
\* the subdomain is the whole domain along every axis (a single-process run)
SingleProcessFlags ==
  {f \in AnyFlags : /\ f["lfirst_proc_x"] /\ f["llast_proc_x"] /\ f["lfirst_proc_y"]
                    /\ f["llast_proc_y"] /\ f["lfirst_proc_z"] /\ f["llast_proc_z"]}
\* the largest cubic subdomain of each ghost depth
LargestParams == {p \in CubicParams : p.nx = MaxExtent}

\* widths and buffer lifetime
Init == InitWith(LargestParams, AnyFlags)
Next == initLoadStore \/ finalLoadStore \/ SetFlag
Spec == Init /\ [][Next]_vars

\* coordinate boxes: every subdomain size, one batch at a time
InitBox == InitWith(Params, NonPeriodicFlags)
NextBox ==
  \/ initLoadStore
  \/ (streams = [s \in Streams |-> <<>>] /\ loadOuterHalos)
  \/ (streams = [s \in Streams |-> <<>>] /\ storeInnerHalos)
  \/ Synchronize
SpecBox == InitBox /\ [][NextBox]_vars

\* re-initialisation after a topology change, followed by transfers
InitFit == InitWith(LargestParams, AnyFlags)
NextFit == initLoadStore \/ SetFlag \/ loadOuterHalos \/ storeInnerHalos \/ Synchronize
SpecFit == InitFit /\ [][NextFit]_vars

\* streams: after initialisation the control thread issues refresh cycles (a load
\* batch, then a store batch) without waiting; the device completes in stream order
InitChan == InitWith(LargestParams, SingleProcessFlags)
NextChan ==
  \/ (calls = 0 /\ initLoadStore)
  \/ (initCalls >= 1 /\ calls % 2 = 0 /\ loadOuterHalos)
  \/ (calls % 2 = 1 /\ storeInnerHalos)
  \/ Complete
SpecChan == InitChan /\ [][NextChan]_vars

(* ------------------------- regions of the transfers -------------------- *)
\* position of a vertex in the mesh array, x fastest
LinearIndex(v) == v.x + v.y * mx + v.z * mxy
CellOfIndex(i) == <<i % mx, (i \div mx) % my, i \div mxy>>
\* the vertices of a contiguous run of num_vertices vertices starting at src
Run(src, num_vertices) ==
  {CellOfIndex(i) : i \in LinearIndex(src)..(LinearIndex(src) + num_vertices - 1)}
\* the vertices of a box with inclusive start and exclusive end
Cells(start, end) ==
  {<<x, y, z>> : x \in start.x..(end.x - 1), y \in start.y..(end.y - 1), z \in start.z..(end.z - 1)}
Region(op) ==
  IF op.prim = "acNodeLoadMeshWithOffset" THEN Run(op.start, op.num_vertices)
                                          ELSE Cells(op.start, op.end)
Extent(a, b) == IF b > a THEN b - a ELSE 0
BoxCells(op) ==
  Extent(op.start.x, op.end.x) * Extent(op.start.y, op.end.y) * Extent(op.start.z, op.end.z)

HasBox(op) == op.prim # "acNodeLoadMeshWithOffset"
Staged(op) == op.prim \in {"acNodeLoadPlateXcomp", "acNodeLoadPlate", "acNodeStorePlate"}
Queued(s) == {streams[s][i] : i \in 1..Len(streams[s])}
Pending == UNION {Queued(s) : s \in Streams}
PendingOf(c) == {op \in Pending : op.call = c}
\* the transfers the device may be executing: the oldest of each stream
InFlight == {Head(streams[s]) : s \in {t \in Streams : streams[t] # <<>>}}
ByName(c, name) == CHOOSE op \in PendingOf(c) : op.name = name

LoadNames == <<"loadOuterFront", "loadOuterBack", "loadOuterTop", "loadOuterBot",
               "loadOuterLeft", "loadOuterRight">>
StoreNames == {"storeInnerFront", "storeInnerBack", "storeInnerBot", "storeInnerTop",
               "storeInnerLeft", "storeInnerRight"}
Range(f) == {f[i] : i \in DOMAIN f}

Mesh == Cells(Int3(0, 0, 0), Int3(mx, my, mz))
Interior == Cells(Int3(nghost, nghost, nghost), Int3(nghost + nx, nghost + ny, nghost + nz))
OuterShell ==
  {c \in Mesh : \/ c[1] < halo_widths_x[BOT] \/ c[1] >= mx - halo_widths_x[TOP]
                \/ c[2] < halo_widths_y[BOT] \/ c[2] >= my - halo_widths_y[TOP]
                \/ c[3] < halo_widths_z[BOT] \/ c[3] >= mz - halo_widths_z[TOP]}
InnerShell ==
  {c \in Interior :
     \/ c[1] < nghost + halo_widths_x[BOT] \/ c[1] >= nghost + nx - halo_widths_x[TOP]
     \/ c[2] < nghost + halo_widths_y[BOT] \/ c[2] >= nghost + ny - halo_widths_y[TOP]
     \/ c[3] < nghost + halo_widths_z[BOT] \/ c[3] >= nghost + nz - halo_widths_z[TOP]}
PairwiseDisjoint(ops) ==
  \A a \in ops : \A b \in ops : a.name # b.name => Region(a) \cap Region(b) = {}

\* the width the widening rule gives a side: nghost+1 on a non-periodic axis whose
\* subdomain is outermost on that side, nghost otherwise
RuleWidth(lper, outermost) == IF ~lper /\ outermost THEN nghost + 1 ELSE nghost
TotalsAreSums ==
  /\ halo_widths_x[TOT] = halo_widths_x[BOT] + halo_widths_x[TOP]
  /\ halo_widths_y[TOT] = halo_widths_y[BOT] + halo_widths_y[TOP]
  /\ halo_widths_z[TOT] = halo_widths_z[BOT] + halo_widths_z[TOP]
\* the rule on every axis, whatever lyinyang is
WidthsByRuleOnAllAxes ==
  /\ halo_widths_x[BOT] = RuleWidth(lperi[0], lfirst_proc_x)
  /\ halo_widths_x[TOP] = RuleWidth(lperi[0], llast_proc_x)
  /\ halo_widths_y[BOT] = RuleWidth(lperi[1], lfirst_proc_y)
  /\ halo_widths_y[TOP] = RuleWidth(lperi[1], llast_proc_y)
  /\ halo_widths_z[BOT] = RuleWidth(lperi[2], lfirst_proc_z)
  /\ halo_widths_z[TOP] = RuleWidth(lperi[2], llast_proc_z)
\* the rule on x, and on y and z only when lyinyang is off
WidthsByRuleExceptYinYang ==
  /\ halo_widths_x[BOT] = RuleWidth(lperi[0], lfirst_proc_x)
  /\ halo_widths_x[TOP] = RuleWidth(lperi[0], llast_proc_x)
  /\ halo_widths_y[BOT] = RuleWidth(lperi[1] \/ lyinyang, lfirst_proc_y)
  /\ halo_widths_y[TOP] = RuleWidth(lperi[1] \/ lyinyang, llast_proc_y)
  /\ halo_widths_z[BOT] = RuleWidth(lperi[2] \/ lyinyang, lfirst_proc_z)
  /\ halo_widths_z[TOP] = RuleWidth(lperi[2] \/ lyinyang, llast_proc_z)

(* ================================ claims =============================== *)

\* C1 (as stated): after the first initLoadStore every side of every axis has the
\* width of the widening rule, for either value of lyinyang, and TOT = BOT + TOP.
C1_WidthsByRuleAnyTopology ==
  (lastOp = "initLoadStore" /\ initCalls = 1) => (WidthsByRuleOnAllAxes /\ TotalsAreSums)

\* C1 (amended): after the first initLoadStore the x widths follow the widening
\* rule; the y and z widths follow it when lyinyang is off and stay nghost when
\* lyinyang is on; and TOT = BOT + TOP on every axis.
C1_WidthsByRuleExceptYinYang ==
  (lastOp = "initLoadStore" /\ initCalls = 1) => (WidthsByRuleExceptYinYang /\ TotalsAreSums)

C1_Witness ==
  /\ lastOp = "initLoadStore" /\ initCalls = 1
  /\ lyinyang /\ ~lperi[1] /\ lfirst_proc_y /\ halo_widths_y[BOT] = nghost
  /\ ~lperi[0] /\ lfirst_proc_x /\ ~llast_proc_x
  /\ halo_widths_x = [i \in 0..2 |-> CASE i = BOT -> nghost + 1 [] i = TOP -> nghost
                                       [] OTHER -> 2 * nghost + 1]

\* C2: no allocation is passed to free() more than once, over any sequence of
\* initLoadStore and finalLoadStore calls.
C2_FreedAtMostOnce == \A a \in DOMAIN heap : heap[a].frees <= 1

\* C3: no two transfers that may execute at the same time (the oldest transfers of
\* two different streams) use the same staging buffer.
C3_NoSharedBufferInFlight ==
  \A a \in InFlight : \A b \in InFlight :
    (a.stream # b.stream /\ Staged(a) /\ Staged(b)) => a.buffer # b.buffer

\* a subdomain whose interior is larger than the two unwidened inner halos
AboveMinimalDomain ==
  nx >= 2 * nghost + 1 /\ ny >= 2 * nghost + 1 /\ nz >= 2 * nghost + 1

\* C4: after initialisation, on every subdomain above the minimal size, every box
\* handed to a plate primitive has start < end on each of the three axes.
C4_BoxesNonEmpty ==
  (initCalls >= 1 /\ AboveMinimalDomain) =>
    \A op \in Pending :
      HasBox(op) => (op.start.x < op.end.x /\ op.start.y < op.end.y /\ op.start.z < op.end.z)

\* C5: once initLoadStore has run, and as long as finalLoadStore has not, no step
\* changes any of the four staging buffer pointers.
C5_NoReallocation ==
  [][(initCalls >= 1 /\ finalCalls' = 0) =>
       (halo_xz_buffer' = halo_xz_buffer /\ halo_yz_buffer' = halo_yz_buffer)]_vars

C5_Witness ==
  /\ lastOp = "initLoadStore" /\ initCalls = 2 /\ flagChanges >= 1 /\ finalCalls = 0
  /\ \A i \in 0..1 : halo_xz_buffer[i] # NULL /\ halo_yz_buffer[i] # NULL
  /\ halo_xz_size[BOT] # heap[halo_xz_buffer[BOT]].size

\* C6: loadOuterHalos queues exactly its six loads, all on STREAM_DEFAULT, in the
\* order front, back, top, bot, left, right, and the loads of one call complete in
\* that order, never two at a time; storeInnerHalos queues exactly its six stores
\* on six pairwise different streams.
C6_DriverStreams ==
  /\ lastOp = "loadOuterHalos" =>
       /\ LET mine == SelectSeq(streams[STREAM_DEFAULT], LAMBDA op : op.call = calls)
          IN [i \in 1..Len(mine) |-> mine[i].name] = LoadNames
       /\ Cardinality(PendingOf(calls)) = 6
       /\ \A op \in PendingOf(calls) : op.stream = STREAM_DEFAULT
  /\ \A a \in Pending : \A b \in Pending :
       (a.call = b.call /\ a.name \in Range(LoadNames) /\ b.name \in Range(LoadNames)) =>
         /\ a.stream = b.stream
         /\ (a.seq < b.seq => \A k \in a.seq..b.seq : \E op \in PendingOf(a.call) : op.seq = k)
         /\ (a \in InFlight /\ b \in InFlight => a = b)
  /\ lastOp = "storeInnerHalos" =>
       /\ {op.name : op \in PendingOf(calls)} = StoreNames
       /\ Cardinality(PendingOf(calls)) = 6
       /\ Cardinality({op.stream : op \in PendingOf(calls)}) = 6

\* the six stores of one call all executing at once, the loads of the cycle still queued
C6_Witness ==
  /\ calls = 2
  /\ Len(streams[STREAM_DEFAULT]) = 4
  /\ Head(streams[STREAM_DEFAULT]).name = "loadOuterTop"
  /\ {op.name : op \in {o \in InFlight : o.call = 2}} = StoreNames

\* C7: after every initLoadStore call each width is what the widening rule gives
\* for the flags current at that call.
C7_WidthsFollowCurrentFlags ==
  lastOp = "initLoadStore" => WidthsByRuleExceptYinYang

MeshExceedsHalos ==
  mx > halo_widths_x[TOT] /\ my > halo_widths_y[TOT] /\ mz > halo_widths_z[TOT]

\* C8: when each mesh extent exceeds the axis's total halo width, the regions of
\* the six loads of one loadOuterHalos call are pairwise disjoint, lie inside the
\* mesh, and their union is the outer shell of the current widths.
C8_LoadsPartitionOuterShell ==
  (lastOp = "loadOuterHalos" /\ MeshExceedsHalos) =>
    /\ PairwiseDisjoint(PendingOf(calls))
    /\ \A op \in PendingOf(calls) : Region(op) \subseteq Mesh
    /\ UNION {Region(op) : op \in PendingOf(calls)} = OuterShell

C8_Witness ==
  /\ lastOp = "loadOuterHalos" /\ MeshExceedsHalos /\ initCalls >= 1
  /\ halo_widths_x[BOT] = nghost + 1 /\ halo_widths_x[TOP] = nghost
  /\ halo_widths_y[BOT] = nghost + 1 /\ halo_widths_y[TOP] = nghost + 1
  /\ halo_widths_z[BOT] = nghost /\ halo_widths_z[TOP] = nghost + 1
  /\ nx # ny /\ ny # nz
  /\ \A op \in PendingOf(calls) : Region(op) # {}

NormalExtent(op) ==
  CASE op.name \in {"storeInnerFront", "storeInnerBack"} -> op.end.z - op.start.z
    [] op.name \in {"storeInnerBot", "storeInnerTop"} -> op.end.y - op.start.y
    [] OTHER -> op.end.x - op.start.x
FaceWidth(op) ==
  CASE op.name = "storeInnerFront" -> halo_widths_z[BOT]
    [] op.name = "storeInnerBack" -> halo_widths_z[TOP]
    [] op.name = "storeInnerBot" -> halo_widths_y[BOT]
    [] op.name = "storeInnerTop" -> halo_widths_y[TOP]
    [] op.name = "storeInnerLeft" -> halo_widths_x[BOT]
    [] OTHER -> halo_widths_x[TOP]
StoresPartitionInnerShell ==
  /\ \A op \in PendingOf(calls) : Region(op) \subseteq Interior
  /\ \A op \in PendingOf(calls) : NormalExtent(op) = FaceWidth(op)
  /\ PairwiseDisjoint(PendingOf(calls))
  /\ UNION {Region(op) : op \in PendingOf(calls)} = InnerShell

\* C9: after initialisation, on every subdomain above the minimal size, the six
\* store boxes of one storeInnerHalos call lie inside the interior, are as thick
\* as their face's halo width, are pairwise disjoint and cover the inner shell.
C9_StoresPartitionInnerShell ==
  (lastOp = "storeInnerHalos" /\ initCalls >= 1 /\ AboveMinimalDomain) =>
    StoresPartitionInnerShell

\* the same, restricted to subdomains at least as large as their total halo widths
StoresPartitionWhenHalosFit ==
  (lastOp = "storeInnerHalos" /\ nx >= halo_widths_x[TOT] /\ ny >= halo_widths_y[TOT]
     /\ nz >= halo_widths_z[TOT]) => StoresPartitionInnerShell

\* C10: every staged transfer queued after initialisation moves no more elements
\* than its staging buffer was allocated with.
C10_TransfersFitBuffers ==
  \A op \in Pending :
    (Staged(op) /\ op.buffer # NULL) =>
      BoxCells(op) * NUM_VTXBUF_HANDLES <= heap[op.buffer].size
====
